---- MODULE Spec2Model ----
(***************************************************************************)
(* Model of the stillwater memsim LPDDR5 controllers                       *)
(*   src/src/technology/lpddr5_controller.cpp                              *)
(*   src/include/sw/memsim/technology/lpddr5/lpddr5_controller.hpp         *)
(*   src/include/sw/memsim/scheduler/fr_fcfs.hpp                           *)
(* One controller is built by create_lpddr5_controller from a              *)
(* ControllerConfig; its fidelity selects the BEHAVIORAL, TRANSACTIONAL or *)
(* CYCLE_ACCURATE implementation.  The caller drives it with submit, tick, *)
(* drain and reset.                                                        *)
(*                                                                         *)
(* Request storage.  CycleAccurateLPDDR5Controller::submit takes its       *)
(* Request by value and hands it to FrFcfsScheduler::store(Request&),      *)
(* which keeps &request.  The scheduler therefore holds pointers to the    *)
(* argument object of a call that has returned.  What such a pointer reads *)
(* later is undefined; the model makes it a choice: the argument of every  *)
(* submit call occupies one of a few addresses (mem), a queue entry is     *)
(* the address it was given, and a later call whose argument lands on the  *)
(* same address overwrites what the older entries read.  A run in which    *)
(* every call uses an address no queue entry refers to is the outcome in   *)
(* which the dangling pointers happen to read what was stored              *)
(* (SpecOwned restricts the model to those runs).                          *)
(***************************************************************************)
EXTENDS Integers, Sequences, FiniteSets, TLC

(***************************************************************************)
(* Bounds of the model                                                     *)
(***************************************************************************)
\* tick calls per run
MaxTicks == 8
\* submit calls per run (accepted or rejected)
MaxReq == 2
\* queue_depth of the configurations explored: 1..MaxQueue
MaxQueue == 2
\* reset calls per run
MaxResets == 1
\* latencies the TRANSACTIONAL estimate ranges over: 1..MaxLat
MaxLat == 2
\* requests of the burst submitted to distinct idle banks at cycle 0
BurstLen == 5
\* rows the submitted addresses range over
Rows == {0, 1}
\* requests stored in a scheduler driven directly
MaxStored == 2
\* get_next calls on a scheduler driven directly
MaxGets == 1
\* columns the addresses of the stored requests range over
Columns == {0, 1}

(***************************************************************************)
(* Program constants                                                       *)
(***************************************************************************)
\* RefreshConfig::max_postpone
max_postpone == 8
\* decode_address: column bits, bank bits, row bits
ColumnBits == 10
BankBits == 4
RowBits == 16

Pow2(n) == 2 ^ n

RECURSIVE BitAnd(_, _)
BitAnd(a, b) ==
    IF a = 0 \/ b = 0 THEN 0
    ELSE (a % 2) * (b % 2) + 2 * BitAnd(a \div 2, b \div 2)


(***************************************************************************)
(* Configuration: TimingParams, OrganizationParams, ControllerConfig       *)
(***************************************************************************)
\* A TimingParams bundle with the ordering of the LPDDR5-6400 preset
\* (tRCD = tRP, tRC = tRAS + tRP, tRCD + tBurst + tRP < tRC, tCCD_S < tCCD_L,
\* tWTR_S < tWTR_L) at cycle counts small enough to explore exhaustively.
SmallTiming ==
    [tRCD |-> 2, tRP |-> 2, tRAS |-> 5, tRC |-> 7, tCL |-> 2, tWL |-> 1,
     tWR |-> 4, tRTP |-> 2, tRRD_L |-> 2, tRRD_S |-> 1, tCCD_L |-> 2,
     tCCD_S |-> 1, tFAW |-> 4, tWTR_L |-> 3, tWTR_S |-> 2, tRTW |-> 3,
     tBurst |-> 2, tRFC |-> 8, tRFCpb |-> 3, tREFI |-> 2,
     fixed_read_latency |-> 3, fixed_write_latency |-> 4]

\* timing_presets::lpddr5_6400
Lpddr5_6400 ==
    [tRCD |-> 18, tRP |-> 18, tRAS |-> 42, tRC |-> 60, tCL |-> 17, tWL |-> 8,
     tWR |-> 34, tRTP |-> 12, tRRD_L |-> 8, tRRD_S |-> 4, tCCD_L |-> 8,
     tCCD_S |-> 4, tFAW |-> 32, tWTR_L |-> 16, tWTR_S |-> 8, tRTW |-> 18,
     tBurst |-> 8, tRFC |-> 280, tRFCpb |-> 90, tREFI |-> 3900,
     fixed_read_latency |-> 100, fixed_write_latency |-> 100]

\* OrganizationParams::banks_per_rank: a uint8_t product
banks_per_rank(org) == (org.bank_groups_per_rank * org.banks_per_bank_group) % 256

\* OrganizationParams::total_banks: the product is computed as an int and
\* returned as a uint8_t
total_banks(org) ==
    (org.num_channels * org.ranks_per_channel * banks_per_rank(org)) % 256

\* banks_(num_channels * banks_per_rank()) in the constructor
NumBanks(cfg) == cfg.organization.num_channels * banks_per_rank(cfg.organization)

BankIds(cfg) == 0 .. (NumBanks(cfg) - 1)

\* One bank group of two banks, one channel
OrgTwoBanks ==
    [num_channels |-> 1, bank_groups_per_rank |-> 1, banks_per_bank_group |-> 2,
     rows_per_bank |-> 65536]

\* The same with a single row per bank
OrgOneRow == [OrgTwoBanks EXCEPT !.rows_per_bank = 1]

\* Two bank groups of four banks, one channel
OrgEightBanks ==
    [num_channels |-> 1, bank_groups_per_rank |-> 2, banks_per_bank_group |-> 4,
     rows_per_bank |-> 65536]

Fidelities == {"BEHAVIORAL", "TRANSACTIONAL", "CYCLE_ACCURATE"}
Types == {"READ", "WRITE"}

ControllerConfig(f, q, org, t) ==
    [fidelity |-> f, queue_depth |-> q, organization |-> org, timing |-> t]


(***************************************************************************)
(* State                                                                   *)
(***************************************************************************)
VARIABLES
    config,          \* ControllerConfig the controller was built from
    current_cycle,   \* current_cycle_
    next_id,         \* next_id_
    banks,           \* CycleAccurate: banks_ (one LPDDR5Bank per index)
    sched,           \* CycleAccurate: the FrFcfsScheduler behind scheduler_
    mem,             \* what the pointers kept by the scheduler read
    bus,             \* CycleAccurate: last_command_, last_read_cycle_, last_write_cycle_
    pending,         \* Transactional: pending_ (std::queue<PendingRequest>)
    stats,           \* stats_
    draining,        \* the caller is inside drain()
    hist             \* history of the run (observations, not program state)

vars == <<config, current_cycle, next_id, banks, sched, mem, bus, pending,
          stats, draining, hist>>

\* addresses the argument of a submit call may occupy: one more than the
\* scheduler can hold pointers to, so that an unused one always exists
StackSlots(cfg) == 1 .. (cfg.queue_depth + 1)

Slots == StackSlots(config)

\* the submit calls of a run, in order; each names its own callback
Uids == 1 .. (MaxReq + BurstLen)

(***************************************************************************)
(* uint64_t values are kept as the integer congruent to them modulo 2^64   *)
(* of least magnitude: a negative integer stands for a wrapped value close *)
(* to 2^64.  U64Less is "<" on the values so represented.                  *)
(***************************************************************************)
U64Less(a, b) ==
    IF (a < 0) = (b < 0) THEN a < b ELSE b < 0

\* std::numeric_limits<uint64_t>::max(), the initial min_latency
UINT64_MAX == -1

\* std::optional<Row>: the empty set is std::nullopt
NoRow == {}

(***************************************************************************)
(* Request (types.hpp) and the argument object of a submit call            *)
(***************************************************************************)
\* A Request as IMemoryController::read / write build it: id, submit_cycle
\* and the decoded fields keep their default 0.  cb names the callback.
NewRequest(addr, type, cb) ==
    [id |-> 0, address |-> addr, type |-> type, submit_cycle |-> 0,
     bank |-> 0, row |-> 0, cb |-> cb]

\* content of an address no queue entry refers to (never read)
FreeSlot == NewRequest(0, "READ", 0)

\* CycleAccurateLPDDR5Controller::decode_address
decode_address(request, org) ==
    LET a0 == request.address
        a1 == a0 \div Pow2(ColumnBits)
        bank == BitAnd(a1, banks_per_rank(org) - 1) % 256
        a2 == a1 \div Pow2(BankBits)
        row == BitAnd(a2, Pow2(RowBits) - 1)
    IN [request EXCEPT !.bank = bank, !.row = row]

\* addresses submitted: every bank index and every row of Rows, column 0
MakeAddress(bank, row) == row * Pow2(ColumnBits + BankBits) + bank * Pow2(ColumnBits)

Addresses(cfg) ==
    { MakeAddress(b, r) : b \in 0 .. (banks_per_rank(cfg.organization) - 1),
                          r \in Rows }

(***************************************************************************)
(* LPDDR5Bank                                                              *)
(***************************************************************************)
LPDDR5Bank ==
    [state |-> "IDLE", open_row |-> 0, state_until |-> 0,
     next_act |-> 0, next_rd |-> 0, next_wr |-> 0, next_pre |-> 0]

\* is_ready_for looking at the state of the bank only
is_ready_for_when_active(bank, type, now) == bank.state = "ACTIVE"

\* LPDDR5Bank::is_ready_for
is_ready_for(bank, type, now) ==
    IF bank.state # "ACTIVE" THEN FALSE
    ELSE IF type = "READ" THEN now >= bank.next_rd ELSE now >= bank.next_wr

\* update_bank_states, one bank
UpdateBank(bank, now) ==
    IF now >= bank.state_until
    THEN CASE bank.state = "ACTIVATING" -> [bank EXCEPT !.state = "ACTIVE"]
           [] bank.state = "PRECHARGING" -> [bank EXCEPT !.state = "IDLE", !.open_row = 0]
           [] bank.state \in {"READING", "WRITING"} -> [bank EXCEPT !.state = "ACTIVE"]
           [] bank.state = "REFRESHING" -> [bank EXCEPT !.state = "IDLE"]
           [] OTHER -> bank
    ELSE bank

update_bank_states(bs, now) == [i \in DOMAIN bs |-> UpdateBank(bs[i], now)]

\* ActLatch without the tRCD wait: the row is usable from the next cycle
ActLatchNoRcd(bank, row, now, t) ==
    [bank EXCEPT !.state = "ACTIVATING", !.open_row = row,
                 !.state_until = now, !.next_act = now + t.tRC,
                 !.next_rd = now, !.next_wr = now]

\* issue_commands, ACT branch: the fields latched when an ACT is issued
ActLatch(bank, row, now, t) ==
    [bank EXCEPT !.state = "ACTIVATING", !.open_row = row,
                 !.state_until = now + t.tRCD, !.next_act = now + t.tRC,
                 !.next_rd = now + t.tRCD, !.next_wr = now + t.tRCD]

\* issue_commands, row hit, READ
ReadLatch(bank, now, t) ==
    [bank EXCEPT !.state = "READING", !.state_until = now + t.tBurst,
                 !.next_rd = now + t.tCCD_S, !.next_wr = now + t.tRTW]

\* issue_commands, row hit, WRITE
WriteLatch(bank, now, t) ==
    [bank EXCEPT !.state = "WRITING", !.state_until = now + t.tBurst,
                 !.next_wr = now + t.tCCD_S, !.next_rd = now + t.tWTR_S]

\* PreLatch closing the bank at once
PreLatchToIdle(bank, now, t) ==
    [bank EXCEPT !.state = "IDLE", !.open_row = 0, !.state_until = now + t.tRP,
                 !.next_act = now + t.tRP]

\* issue_commands, row conflict: the fields latched when a PRE is issued
PreLatch(bank, now, t) ==
    [bank EXCEPT !.state = "PRECHARGING", !.state_until = now + t.tRP,
                 !.next_act = now + t.tRP]

(***************************************************************************)
(* FrFcfsScheduler.  A queue entry is the pointer store() was given (ptr); *)
(* uid names the call that stored it and is not read by the program.       *)
(***************************************************************************)
FrFcfsScheduler(cfg) ==
    [buffers |-> [b \in 0 .. ((NumBanks(cfg) % 256) - 1) |-> << >>],
     buffer_depths |-> [b \in 0 .. ((NumBanks(cfg) % 256) - 1) |-> 0],
     total_occupancy |-> 0,
     requests_selected |-> 0,
     row_hits |-> 0,
     buffer_size |-> cfg.queue_depth]

\* has_space admitting one request beyond buffer_size
has_space_plus_one(s, count) == s.total_occupancy + count <= s.buffer_size + 1

has_space(s, count) == s.total_occupancy + count <= s.buffer_size

has_any_pending(s) == s.total_occupancy > 0

occupancy(s) == s.total_occupancy

\* store: the bank is read from the request while it is alive
store(s, request, ptr, uid) ==
    [s EXCEPT !.buffers[request.bank] = Append(@, [ptr |-> ptr, uid |-> uid]),
              !.buffer_depths[request.bank] = @ + 1,
              !.total_occupancy = @ + 1]

RemoveAt(q, i) == SubSeq(q, 1, i - 1) \o SubSeq(q, i + 1, Len(q))

FirstIndex(S) == CHOOSE i \in S : \A j \in S : i <= j

\* remove decrementing the counts whether or not an entry is erased
remove_counting(s, m, request) ==
    LET buffer == s.buffers[request.bank]
        found == { i \in 1 .. Len(buffer) : m[buffer[i].ptr].id = request.id }
    IN [s EXCEPT !.buffers[request.bank] =
                     IF found = {} THEN @ ELSE RemoveAt(buffer, FirstIndex(found)),
                 !.buffer_depths[request.bank] = @ - 1,
                 !.total_occupancy = @ - 1]

\* remove: erases the first entry of the request's bank whose id matches
remove(s, m, request) ==
    LET buffer == s.buffers[request.bank]
        found == { i \in 1 .. Len(buffer) : m[buffer[i].ptr].id = request.id }
    IN IF found = {} THEN s
       ELSE [s EXCEPT !.buffers[request.bank] = RemoveAt(buffer, FirstIndex(found)),
                      !.buffer_depths[request.bank] = @ - 1,
                      !.total_occupancy = @ - 1]

\* the oldest entry, whatever row is open
get_next_index_oldest(s, m, bank, open_row) ==
    IF Len(s.buffers[bank]) = 0 THEN 0 ELSE 1

\* get_next: index of the selected entry in the bank's buffer (0: nullptr)
get_next_index(s, m, bank, open_row) ==
    LET buffer == s.buffers[bank]
        hits == { i \in 1 .. Len(buffer) : m[buffer[i].ptr].row \in open_row }
    IN IF Len(buffer) = 0 THEN 0
       ELSE IF open_row # NoRow /\ hits # {} THEN FirstIndex(hits)
       ELSE 1

\* get_next: the counters it updates through const_cast
get_next_counters(s, m, bank, open_row) ==
    LET buffer == s.buffers[bank]
        hits == { i \in 1 .. Len(buffer) : m[buffer[i].ptr].row \in open_row }
    IN IF Len(buffer) = 0 THEN s
       ELSE IF open_row # NoRow /\ hits # {}
            THEN [s EXCEPT !.row_hits = @ + 1, !.requests_selected = @ + 1]
       ELSE [s EXCEPT !.requests_selected = @ + 1]

(***************************************************************************)
(* Statistics                                                              *)
(***************************************************************************)
Statistics ==
    [reads |-> 0, writes |-> 0, page_hits |-> 0, page_empty |-> 0,
     page_conflicts |-> 0, total_read_latency |-> 0, total_write_latency |-> 0,
     min_latency |-> UINT64_MAX, max_latency |-> 0]

\* the read / write counters and latency sums, as record_request and the
\* BEHAVIORAL and TRANSACTIONAL controllers update them
CountRequest(st, type, latency) ==
    IF type = "READ"
    THEN [st EXCEPT !.reads = @ + 1, !.total_read_latency = @ + latency]
    ELSE [st EXCEPT !.writes = @ + 1, !.total_write_latency = @ + latency]

\* record_request classifying a conflict before a hit
record_request_conflict_first(st, type, latency, page_hit, page_conflict) ==
    LET s1 == CountRequest(st, type, latency)
    IN IF page_conflict THEN [s1 EXCEPT !.page_conflicts = @ + 1]
       ELSE IF page_hit THEN [s1 EXCEPT !.page_hits = @ + 1]
       ELSE [s1 EXCEPT !.page_empty = @ + 1]

\* Statistics::record_request
record_request(st, type, latency, page_hit, page_conflict) ==
    LET s1 == CountRequest(st, type, latency)
        s2 == IF page_hit THEN [s1 EXCEPT !.page_hits = @ + 1]
              ELSE IF page_conflict THEN [s1 EXCEPT !.page_conflicts = @ + 1]
              ELSE [s1 EXCEPT !.page_empty = @ + 1]
    IN [s2 EXCEPT !.min_latency = IF U64Less(latency, @) THEN latency ELSE @,
                  !.max_latency = IF U64Less(@, latency) THEN latency ELSE @]


(***************************************************************************)
(* History of the run.  cmds and fired are the DRAM commands issued and    *)
(* the callbacks invoked by the most recent tick, in order; every command  *)
(* is logged with what preceded it.  called counts the invocations of each *)
(* callback.  ret describes the most recent call of the caller.  done are  *)
(* the requests the cycle-accurate controller completed since construction *)
(* or reset, in order.  arg_cycle is, for every address a queue entry      *)
(* refers to, the value of cycle() at the submit call whose argument lay   *)
(* there last.  queued_row is, for every call whose queue entry is still    *)
(* queued, the row its request addressed.                                  *)
(***************************************************************************)
NoRet ==
    [op |-> "none", accepted |-> FALSE, id |-> 0, pending_before |-> 0,
     prev_id |-> 0]

InitHist(cfg) ==
    [cmds |-> << >>,
     fired |-> << >>,
     last_act |-> [b \in BankIds(cfg) |-> << >>],
     rank_acts |-> << >>,
     last_wr |-> << >>,
     last_cas |-> [b \in BankIds(cfg) |-> [RD |-> << >>, WR |-> << >>]],
     last_ref |-> [b \in BankIds(cfg) |-> 0],
     called |-> [u \in Uids |-> 0],
     accepted |-> {},
     n_submits |-> 0,
     n_ticks |-> 0,
     n_resets |-> 0,
     last_id |-> 0,
     reset_mark |-> 0,
     done |-> << >>,
     arg_cycle |-> [a \in StackSlots(cfg) |-> 0],
     queued_row |-> [u \in Uids |-> << >>],
     ret |-> NoRet]

\* reset: the observations of the timing start afresh, the record of who
\* was accepted and called does not
ResetHist(h) ==
    [InitHist(config) EXCEPT !.called = h.called,
                             !.accepted = h.accepted,
                             !.n_submits = h.n_submits,
                             !.n_ticks = h.n_ticks,
                             !.n_resets = h.n_resets + 1,
                             !.last_id = h.last_id,
                             !.reset_mark = h.n_submits,
                             !.arg_cycle = h.arg_cycle,
                             !.queued_row = h.queued_row,
                             !.ret = [NoRet EXCEPT !.op = "reset"]]

LastN(q, n) == IF Len(q) <= n THEN q ELSE SubSeq(q, Len(q) - n + 1, Len(q))

\* a command issued at cycle now, with what preceded it: the cycle of the
\* bank's latest ACT (prev_act, empty if none), the cycles of the latest (up
\* to four) ACTs of the rank (prev_acts), the latest WR (prev_wr, empty if
\* none) and the cycles of the latest RD and WR of every bank (prev_cas)
LogCmd(h, cmd, bank, row, type, now) ==
    [h EXCEPT !.cmds = Append(@, [cmd |-> cmd, bank |-> bank, row |-> row,
                                  type |-> type, cycle |-> now,
                                  prev_act |-> h.last_act[bank],
                                  prev_acts |-> h.rank_acts,
                                  prev_wr |-> h.last_wr,
                                  prev_cas |-> h.last_cas]),
              !.last_act = IF cmd = "ACT" THEN [@ EXCEPT ![bank] = <<now>>] ELSE @,
              !.rank_acts = IF cmd = "ACT" THEN LastN(Append(@, now), 4) ELSE @,
              !.last_wr = IF cmd = "WR" THEN <<[cycle |-> now, bank |-> bank]>>
                          ELSE @,
              !.last_cas = IF cmd \in {"RD", "WR"}
                           THEN [@ EXCEPT ![bank][cmd] = <<now>>]
                           ELSE @]

\* a callback invoked with a latency, for the queue entry (uid) being served;
\* issued is the cycle of the RD or WR command that served the entry (empty
\* where no command is issued)
LogCallback(h, cb, id, uid, latency, submit_cycle, issued, now) ==
    [h EXCEPT !.fired = Append(@, [cb |-> cb, id |-> id, uid |-> uid,
                                   latency |-> latency,
                                   submit_cycle |-> submit_cycle,
                                   issued |-> issued, cycle |-> now]),
              !.called[cb] = @ + 1]

\* a request completed by the RD or WR command issued at cycle issued to
\* (bank, row); at is cycle() at the submit call of the argument read
LogDone(h, cb, latency, bank, row, type, issued, at) ==
    [h EXCEPT !.done = Append(@, [cb |-> cb, latency |-> latency, bank |-> bank,
                                  row |-> row, type |-> type,
                                  issued |-> issued, at |-> at])]

(***************************************************************************)
(* CycleAccurateLPDDR5Controller::issue_commands.  s carries the members   *)
(* the loop updates: banks, sched, bus, stats, and the history.            *)
(***************************************************************************)
\* the latency counted from the cycle of the command itself
CompletionLatencySinceCommand(req, now, t) == now - now

\* issue_commands: the latency recorded and passed to the callback
CompletionLatency(req, now, t) == now - req.submit_cycle + t.tBurst

\* the row-hit branch once is_ready_for holds: RD or WR, completion, removal
IssueCas(s, m, i, req, entry, now, t) ==
    LET bank == s.banks[i]
        latency == CompletionLatency(req, now, t)
        st1 == [s.stats EXCEPT !.page_hits = @ + 1]
        h0 == LogCmd(s.hist, IF req.type = "READ" THEN "RD" ELSE "WR",
                     i, req.row, req.type, now)
        h1 == LogDone(h0, req.cb, latency, i, req.row, req.type, now,
                      s.hist.arg_cycle[entry.ptr])
    IN [s EXCEPT
          !.banks[i] = IF req.type = "READ" THEN ReadLatch(bank, now, t)
                       ELSE WriteLatch(bank, now, t),
          !.bus = IF req.type = "READ"
                  THEN [@ EXCEPT !.last_read_cycle = now, !.last_command = req.type]
                  ELSE [@ EXCEPT !.last_write_cycle = now, !.last_command = req.type],
          !.stats = record_request(st1, req.type, latency, TRUE, FALSE),
          !.hist = IF req.cb # 0
                   THEN LogCallback(h1, req.cb, req.id, entry.uid, latency,
                                    req.submit_cycle, <<now>>, now)
                   ELSE h1,
          !.sched = remove(s.sched, m, req)]

\* RowHit for every request, whatever row is open
RowHitAny(bank, req) == TRUE

\* issue_commands: the request addresses the open row of the bank
RowHit(bank, req) == bank.open_row = req.row

\* one iteration of the loop over the banks
IssueBank(s, m, i, now, t) ==
    LET bank == s.banks[i]
        row_opt == IF bank.state = "ACTIVE" THEN {bank.open_row} ELSE NoRow
        idx == get_next_index(s.sched, m, i, row_opt)
        s1 == [s EXCEPT !.sched = get_next_counters(s.sched, m, i, row_opt)]
    IN IF idx = 0 THEN s
       ELSE LET entry == s.sched.buffers[i][idx]
                req == m[entry.ptr]
            IN IF bank.state = "IDLE"
               THEN IF now >= bank.next_act
                    THEN [s1 EXCEPT !.banks[i] = ActLatch(bank, req.row, now, t),
                                    !.hist = LogCmd(s1.hist, "ACT", i, req.row,
                                                    req.type, now)]
                    ELSE s1
               ELSE IF bank.state = "ACTIVE"
               THEN IF RowHit(bank, req)
                    THEN IF is_ready_for(bank, req.type, now)
                         THEN IssueCas(s1, m, i, req, entry, now, t)
                         ELSE s1
                    ELSE LET s2 == [s1 EXCEPT !.stats.page_conflicts = @ + 1]
                         IN IF now >= bank.next_pre
                            THEN [s2 EXCEPT !.banks[i] = PreLatch(bank, now, t),
                                            !.hist = LogCmd(s2.hist, "PRE", i,
                                                            req.row, req.type, now)]
                            ELSE s2
               ELSE s1

RECURSIVE IssueFrom(_, _, _, _, _, _)
IssueFrom(s, m, i, n, now, t) ==
    IF i >= n THEN s
    ELSE IssueFrom(IssueBank(s, m, i, now, t), m, i + 1, n, now, t)

issue_commands(s, m, now, t) ==
    IssueFrom(s, m, 0, Cardinality(DOMAIN s.banks), now, t)


(***************************************************************************)
(* Memory behind the scheduler's pointers                                  *)
(***************************************************************************)
RefSlots(s) ==
    UNION { { s.buffers[b][i].ptr : i \in 1 .. Len(s.buffers[b]) } : b \in DOMAIN s.buffers }

\* an address nothing points to is never read: its content is dropped
Forget(m, s) == [a \in Slots |-> IF a \in RefSlots(s) THEN m[a] ELSE FreeSlot]

\* arg_cycle after a submit call at cycle now whose argument lies at slot,
\* kept for the addresses the queue s refers to
ArgCycles(h, s, slot, now) ==
    [h EXCEPT !.arg_cycle = [a \in DOMAIN @ |->
                                IF a \notin RefSlots(s) THEN 0
                                ELSE IF a = slot THEN now ELSE @[a]]]

\* the calls whose entries the queue s holds
QueuedUids(s) ==
    UNION { { s.buffers[b][i].uid : i \in 1 .. Len(s.buffers[b]) } : b \in DOMAIN s.buffers }

\* queued_row after the call uid submitted a request for row, kept for the
\* entries the queue s holds
QueuedRows(h, s, uid, row) ==
    [h EXCEPT !.queued_row = [u \in DOMAIN @ |->
                                 IF u \notin QueuedUids(s) THEN << >>
                                 ELSE IF u = uid THEN <<row>> ELSE @[u]]]

\* where the argument of the next submit call may lie: on an address a queue
\* entry still points to, or on an unused one (the lowest: unused addresses
\* are interchangeable)
FreeSlots(s) == Slots \ RefSlots(s)

NextFreeSlot(s) ==
    IF FreeSlots(s) = {} THEN {} ELSE { FirstIndex(FreeSlots(s)) }

ArgumentSlots(s) == RefSlots(s) \cup NextFreeSlot(s)

(***************************************************************************)
(* Queries                                                                 *)
(***************************************************************************)
pending_count ==
    CASE config.fidelity = "CYCLE_ACCURATE" -> occupancy(sched)
      [] config.fidelity = "TRANSACTIONAL" -> Len(pending)
      [] OTHER -> 0

has_pending ==
    CASE config.fidelity = "CYCLE_ACCURATE" -> has_any_pending(sched)
      [] config.fidelity = "TRANSACTIONAL" -> Len(pending) # 0
      [] OTHER -> FALSE

(***************************************************************************)
(* CycleAccurateLPDDR5Controller                                           *)
(***************************************************************************)
\* submit: request is the argument object, at address slot
SubmitCA(addr, type, slot) ==
    LET uid == hist.n_submits + 1
        arg == NewRequest(addr, type, uid)
        request == decode_address(
                       [arg EXCEPT !.id = next_id, !.submit_cycle = current_cycle],
                       config.organization)
        h0 == [hist EXCEPT !.n_submits = uid]
        q == IF has_space(sched, 1)
             THEN store(sched, request, slot, uid) ELSE sched
        h == QueuedRows(ArgCycles(h0, q, slot, current_cycle), q, uid,
                        request.row)
    IN /\ config.fidelity = "CYCLE_ACCURATE"
       /\ ~draining
       /\ IF ~has_space(sched, 1)
          THEN /\ mem' = Forget([mem EXCEPT ![slot] = arg], sched)
               /\ hist' = [h EXCEPT !.ret = [op |-> "submit", accepted |-> FALSE,
                                             id |-> 0,
                                             pending_before |-> pending_count,
                                             prev_id |-> hist.last_id]]
               /\ UNCHANGED <<next_id, sched>>
          ELSE /\ next_id' = next_id + 1
               /\ sched' = store(sched, request, slot, uid)
               /\ mem' = [mem EXCEPT ![slot] = request]
               /\ hist' = [h EXCEPT !.accepted = @ \cup {uid},
                                     !.last_id = request.id,
                                     !.ret = [op |-> "submit", accepted |-> TRUE,
                                              id |-> request.id,
                                              pending_before |-> pending_count,
                                              prev_id |-> hist.last_id]]
       /\ UNCHANGED <<config, current_cycle, banks, bus, pending, stats, draining>>

\* tick: update_bank_states, issue_commands (complete_transfers and
\* check_timing_invariants have empty bodies)
TickCA ==
    LET now == current_cycle + 1
        s0 == [banks |-> update_bank_states(banks, now), sched |-> sched,
               bus |-> bus, stats |-> stats,
               hist |-> [hist EXCEPT !.cmds = << >>, !.fired = << >>,
                                     !.n_ticks = @ + 1,
                                     !.ret = [NoRet EXCEPT !.op = "tick"]]]
        s1 == issue_commands(s0, mem, now, config.timing)
    IN /\ config.fidelity = "CYCLE_ACCURATE"
       /\ current_cycle' = now
       /\ banks' = s1.banks
       /\ sched' = s1.sched
       /\ bus' = s1.bus
       /\ stats' = s1.stats
       /\ mem' = Forget(mem, s1.sched)
       /\ hist' = [QueuedRows(ArgCycles(s1.hist, s1.sched, 0, now),
                              s1.sched, 0, 0) EXCEPT !.last_ref =
                      [b \in DOMAIN banks |->
                          IF s1.banks[b].state = "REFRESHING"
                             /\ banks[b].state # "REFRESHING"
                          THEN now ELSE @[b]]]
       /\ UNCHANGED <<config, next_id, pending, draining>>

\* reset: the scheduler and the bus members are not touched
ResetCA ==
    /\ config.fidelity = "CYCLE_ACCURATE"
    /\ ~draining
    /\ current_cycle' = 0
    /\ next_id' = 1
    /\ banks' = [b \in DOMAIN banks |-> LPDDR5Bank]
    /\ stats' = Statistics
    /\ hist' = ResetHist(hist)
    /\ UNCHANGED <<config, sched, mem, bus, pending, draining>>


(***************************************************************************)
(* TransactionalLPDDR5Controller.  pending_ holds copies of the requests.  *)
(***************************************************************************)
\* estimate_latency: max(1.0, base + sample) for a normally distributed
\* sample is any cycle count >= 1
Latencies == 1 .. MaxLat

SubmitTX(addr, type, latency) ==
    LET uid == hist.n_submits + 1
        request == [NewRequest(addr, type, uid) EXCEPT
                       !.id = next_id, !.submit_cycle = current_cycle]
        h == [hist EXCEPT !.n_submits = uid]
    IN /\ config.fidelity = "TRANSACTIONAL"
       /\ ~draining
       /\ IF Len(pending) >= config.queue_depth
          THEN /\ hist' = [h EXCEPT !.ret = [op |-> "submit", accepted |-> FALSE,
                                             id |-> 0,
                                             pending_before |-> pending_count,
                                             prev_id |-> hist.last_id]]
               /\ UNCHANGED <<next_id, pending>>
          ELSE /\ next_id' = next_id + 1
               /\ pending' = Append(pending,
                                    [request |-> request,
                                     complete_cycle |-> current_cycle + latency])
               /\ hist' = [h EXCEPT !.accepted = @ \cup {uid},
                                     !.last_id = request.id,
                                     !.ret = [op |-> "submit", accepted |-> TRUE,
                                              id |-> request.id,
                                              pending_before |-> pending_count,
                                              prev_id |-> hist.last_id]]
       /\ UNCHANGED <<config, current_cycle, banks, sched, mem, bus, stats, draining>>

\* the while loop of tick: s carries pending_, stats_ and the history
RECURSIVE ReleaseTX(_, _)
ReleaseTX(s, now) ==
    IF Len(s.pending) # 0 /\ Head(s.pending).complete_cycle <= now
    THEN LET pr == Head(s.pending)
             latency == now - pr.request.submit_cycle
         IN ReleaseTX(
                [pending |-> Tail(s.pending),
                 stats |-> CountRequest(s.stats, pr.request.type, latency),
                 hist |-> IF pr.request.cb # 0
                          THEN LogCallback(s.hist, pr.request.cb, pr.request.id,
                                           pr.request.cb, latency,
                                           pr.request.submit_cycle, << >>, now)
                          ELSE s.hist],
                now)
    ELSE s

TickTX ==
    LET now == current_cycle + 1
        s1 == ReleaseTX([pending |-> pending, stats |-> stats,
                         hist |-> [hist EXCEPT !.cmds = << >>, !.fired = << >>,
                                               !.n_ticks = @ + 1,
                                               !.ret = [NoRet EXCEPT !.op = "tick"]]],
                        now)
    IN /\ config.fidelity = "TRANSACTIONAL"
       /\ current_cycle' = now
       /\ pending' = s1.pending
       /\ stats' = s1.stats
       /\ hist' = s1.hist
       /\ UNCHANGED <<config, next_id, banks, sched, mem, bus, draining>>

ResetTX ==
    /\ config.fidelity = "TRANSACTIONAL"
    /\ ~draining
    /\ current_cycle' = 0
    /\ pending' = << >>
    /\ stats' = Statistics
    /\ hist' = ResetHist(hist)
    /\ UNCHANGED <<config, next_id, banks, sched, mem, bus, draining>>

(***************************************************************************)
(* BehavioralLPDDR5Controller                                              *)
(***************************************************************************)
\* the read latency for every type
FixedLatencyOfRead(type, t) == t.fixed_read_latency

\* submit: the latency by the type of the request
FixedLatency(type, t) ==
    IF type = "READ" THEN t.fixed_read_latency ELSE t.fixed_write_latency

SubmitBEH(addr, type) ==
    LET uid == hist.n_submits + 1
        latency == FixedLatency(type, config.timing)
        h == [hist EXCEPT !.n_submits = uid, !.fired = << >>, !.cmds = << >>,
                          !.accepted = @ \cup {uid},
                          !.last_id = next_id,
                          !.ret = [op |-> "submit", accepted |-> TRUE,
                                   id |-> next_id,
                                   pending_before |-> pending_count,
                                   prev_id |-> hist.last_id]]
    IN /\ config.fidelity = "BEHAVIORAL"
       /\ ~draining
       /\ next_id' = next_id + 1
       /\ stats' = CountRequest(stats, type, latency)
       /\ hist' = LogCallback(h, uid, next_id, uid, latency, 0, << >>,
                              current_cycle)
       /\ UNCHANGED <<config, current_cycle, banks, sched, mem, bus, pending, draining>>

TickBEH ==
    /\ config.fidelity = "BEHAVIORAL"
    /\ current_cycle' = current_cycle + 1
    /\ hist' = [hist EXCEPT !.cmds = << >>, !.fired = << >>,
                            !.n_ticks = @ + 1,
                            !.ret = [NoRet EXCEPT !.op = "tick"]]
    /\ UNCHANGED <<config, next_id, banks, sched, mem, bus, pending, stats, draining>>

ResetBEH ==
    /\ config.fidelity = "BEHAVIORAL"
    /\ ~draining
    /\ current_cycle' = 0
    /\ stats' = Statistics
    /\ hist' = ResetHist(hist)
    /\ UNCHANGED <<config, next_id, banks, sched, mem, bus, pending, draining>>

(***************************************************************************)
(* The caller                                                              *)
(***************************************************************************)
\* create_lpddr5_controller and the constructors
InitWith(cfg) ==
    /\ config = cfg
    /\ current_cycle = 0
    /\ next_id = 1
    /\ banks = [b \in BankIds(cfg) |-> LPDDR5Bank]
    /\ sched = FrFcfsScheduler(cfg)
    /\ mem = [a \in StackSlots(cfg) |-> FreeSlot]
    /\ bus = [last_command |-> "READ", last_read_cycle |-> 0, last_write_cycle |-> 0]
    /\ pending = << >>
    /\ stats = Statistics
    /\ draining = FALSE
    /\ hist = InitHist(cfg)

\* submit through read() / write(): any address, any type; the argument
\* lies on any address it may occupy
Submit ==
    /\ hist.n_submits < MaxReq
    /\ \E addr \in Addresses(config), type \in Types :
          \/ \E slot \in ArgumentSlots(sched) : SubmitCA(addr, type, slot)
          \/ \E latency \in Latencies : SubmitTX(addr, type, latency)
          \/ SubmitBEH(addr, type)

Tick ==
    /\ ~draining
    /\ hist.n_ticks < MaxTicks
    /\ (TickCA \/ TickTX \/ TickBEH)

Reset ==
    /\ hist.n_resets < MaxResets
    /\ (ResetCA \/ ResetTX \/ ResetBEH)

\* drain(): the caller enters, the loop ticks while requests are pending
\* (BEHAVIORAL: the body is empty), then the call returns
DrainCall ==
    /\ ~draining
    /\ draining' = TRUE
    /\ hist' = [hist EXCEPT !.ret = [NoRet EXCEPT !.op = "drain"]]
    /\ UNCHANGED <<config, current_cycle, next_id, banks, sched, mem, bus,
                   pending, stats>>

DrainTick ==
    /\ draining
    /\ has_pending
    /\ hist.n_ticks < MaxTicks
    /\ (TickCA \/ TickTX)

DrainReturn ==
    /\ draining
    /\ ~has_pending
    /\ draining' = FALSE
    /\ hist' = [hist EXCEPT !.ret = [NoRet EXCEPT !.op = "drained"]]
    /\ UNCHANGED <<config, current_cycle, next_id, banks, sched, mem, bus,
                   pending, stats>>

Configs ==
    { ControllerConfig(f, q, OrgTwoBanks, SmallTiming) :
          f \in Fidelities, q \in 1 .. MaxQueue }

Init == \E cfg \in Configs : InitWith(cfg)

Next == Submit \/ Tick \/ Reset

Spec == Init /\ [][Next]_vars

\* the same caller with drain() in place of reset()
NextDrain == Submit \/ Tick \/ DrainCall \/ DrainTick \/ DrainReturn

SpecDrain == Init /\ [][NextDrain]_vars

(***************************************************************************)
(* The cycle-accurate controller in the runs where the pointers kept by    *)
(* the scheduler read what was stored: the argument of every submit call   *)
(* lies on an address no queue entry refers to.                            *)
(***************************************************************************)
SubmitOwned ==
    /\ hist.n_submits < MaxReq
    /\ \E addr \in Addresses(config), type \in Types :
          \E slot \in NextFreeSlot(sched) : SubmitCA(addr, type, slot)

TickOwned ==
    /\ hist.n_ticks < MaxTicks
    /\ TickCA

InitOwned ==
    InitWith(ControllerConfig("CYCLE_ACCURATE", MaxQueue, OrgTwoBanks, SmallTiming))

NextOwned == SubmitOwned \/ TickOwned

SpecOwned == InitOwned /\ [][NextOwned]_vars

(***************************************************************************)
(* A burst: BurstLen requests to banks 0, 1, ... of one rank, all idle,    *)
(* submitted at cycle 0, then ticks.                                       *)
(***************************************************************************)
SubmitBurst ==
    /\ current_cycle = 0
    /\ hist.n_submits < BurstLen
    /\ \E row \in Rows, type \in Types :
          \E slot \in NextFreeSlot(sched) :
              SubmitCA(MakeAddress(hist.n_submits, row), type, slot)

TickBurst ==
    /\ hist.n_submits = BurstLen
    /\ hist.n_ticks < MaxTicks
    /\ TickCA

InitBurst ==
    InitWith(ControllerConfig("CYCLE_ACCURATE", BurstLen, OrgEightBanks, SmallTiming))

NextBurst == SubmitBurst \/ TickBurst

SpecBurst == InitBurst /\ [][NextBurst]_vars

(***************************************************************************)
(* A long run: ticks past tREFI * (1 + max_postpone) cycles, with at most  *)
(* one request.                                                            *)
(***************************************************************************)
RefreshDeadline(t) == t.tREFI * (1 + max_postpone)

SubmitLong ==
    /\ hist.n_submits < 1
    /\ \E addr \in Addresses(config), type \in Types :
          \E slot \in NextFreeSlot(sched) : SubmitCA(addr, type, slot)

TickLong ==
    /\ current_cycle <= RefreshDeadline(config.timing)
    /\ TickCA

NextLong == SubmitLong \/ TickLong

SpecLong == InitOwned /\ [][NextLong]_vars

(***************************************************************************)
(* The LPDDR5-6400 preset: up to MaxReq requests submitted at cycle 0 to   *)
(* idle banks, every argument on an address no queue entry refers to, then *)
(* PresetTicks ticks.                                                      *)
(***************************************************************************)
PresetTicks == 72

SubmitPreset ==
    /\ current_cycle = 0
    /\ hist.n_submits < MaxReq
    /\ \E addr \in Addresses(config), type \in Types :
          \E slot \in NextFreeSlot(sched) : SubmitCA(addr, type, slot)

TickPreset ==
    /\ current_cycle < PresetTicks
    /\ TickCA

InitPreset ==
    InitWith(ControllerConfig("CYCLE_ACCURATE", MaxQueue, OrgTwoBanks, Lpddr5_6400))

NextPreset == SubmitPreset \/ TickPreset

SpecPreset == InitPreset /\ [][NextPreset]_vars

(***************************************************************************)
(* Banks of a single row: the requests address rows 0 and 1 of banks that  *)
(* have rows_per_bank = 1.                                                 *)
(***************************************************************************)
InitRows ==
    InitWith(ControllerConfig("CYCLE_ACCURATE", MaxQueue, OrgOneRow, SmallTiming))

SpecRows == InitRows /\ [][NextOwned]_vars

(***************************************************************************)
(* Configurations with tRAS < tRCD, for the three fidelities, and with     *)
(* banks_per_rank() = 0, for the two fidelities that keep no banks (the    *)
(* cycle-accurate scheduler indexes its vector of bank queues with the     *)
(* decoded bank).                                                          *)
(***************************************************************************)
OrgNoBanks == [OrgTwoBanks EXCEPT !.bank_groups_per_rank = 0]

ShortRasTiming == [SmallTiming EXCEPT !.tRAS = SmallTiming.tRCD - 1]

InvalidConfig(cfg) ==
    \/ banks_per_rank(cfg.organization) = 0
    \/ cfg.timing.tRAS < cfg.timing.tRCD

InvalidConfigs ==
    { ControllerConfig(f, MaxQueue, OrgTwoBanks, ShortRasTiming) : f \in Fidelities }
       \cup { ControllerConfig(f, MaxQueue, OrgNoBanks, SmallTiming) :
                 f \in {"BEHAVIORAL", "TRANSACTIONAL"} }

InitInvalid == \E cfg \in InvalidConfigs : InitWith(cfg)

SubmitInvalid ==
    /\ hist.n_submits < MaxReq
    /\ \E row \in Rows, type \in Types :
          \/ \E slot \in NextFreeSlot(sched) :
                SubmitCA(MakeAddress(0, row), type, slot)
          \/ \E latency \in Latencies : SubmitTX(MakeAddress(0, row), type, latency)
          \/ SubmitBEH(MakeAddress(0, row), type)

NextInvalid == SubmitInvalid \/ Tick

SpecInvalid == InitInvalid /\ [][NextInvalid]_vars

(***************************************************************************)
(* The schedulers driven directly: FifoScheduler, FrFcfsScheduler and      *)
(* FrFcfsGrpScheduler behind IScheduler.  The caller owns the requests     *)
(* (mem, one address per store) and keeps them alive and unchanged while   *)
(* they are queued; sched holds the members of the scheduler.  hist counts *)
(* the calls and describes the most recent one (ret): for get_next its     *)
(* arguments and the request returned, for remove the bank and the request *)
(* erased, and whether that request is the one the call before it, a       *)
(* get_next, had returned.                                                 *)
(***************************************************************************)
SchedulerConfig(policy) ==
    [policy |-> policy, buffer_size |-> MaxStored,
     num_banks |-> banks_per_rank(OrgTwoBanks)]

\* the constructors and the member initialisers of the three classes
NewScheduler(cfg) ==
    [buffers |-> [b \in 0 .. (cfg.num_banks - 1) |-> << >>],
     buffer_depths |-> [b \in 0 .. (cfg.num_banks - 1) |-> 0],
     total_occupancy |-> 0,
     last_command |-> "READ",
     requests_selected |-> 0,
     row_hits |-> 0,
     grouping_decisions |-> 0,
     buffer_size |-> cfg.buffer_size]

\* the request stored last
fifo_get_newest_index(s, bank) == Len(s.buffers[bank])

\* FifoScheduler::get_next
fifo_get_next_index(s, bank) == IF Len(s.buffers[bank]) = 0 THEN 0 ELSE 1

fifo_get_next_counters(s, bank) ==
    IF Len(s.buffers[bank]) = 0 THEN s
    ELSE [s EXCEPT !.requests_selected = @ + 1]

\* FrFcfsGrpScheduler: row_hits, as positions in the bank's buffer
grp_row_hits(s, m, bank, open_row) ==
    { i \in 1 .. Len(s.buffers[bank]) : m[s.buffers[bank][i].ptr].row \in open_row }

\* no hazard, whatever is queued
has_no_address_hazard(s, m, bank, candidates, target) == FALSE

\* FrFcfsGrpScheduler::has_address_hazard: a candidate before target has
\* the address of target
has_address_hazard(s, m, bank, candidates, target) ==
    \E i \in candidates :
        /\ i < target
        /\ m[s.buffers[bank][i].ptr].address = m[s.buffers[bank][target].ptr].address

\* the row hits of type preferred that no earlier row hit of the same
\* address blocks
grp_same_type(s, m, bank, open_row, preferred) ==
    { i \in grp_row_hits(s, m, bank, open_row) :
         /\ m[s.buffers[bank][i].ptr].type = preferred
         /\ ~has_address_hazard(s, m, bank, grp_row_hits(s, m, bank, open_row), i) }

\* FrFcfsGrpScheduler::remove
grp_remove(s, m, request) ==
    [remove(s, m, request) EXCEPT !.last_command = request.type]

\* FrFcfsGrpScheduler::get_next; the last_cmd argument is not read
grp_get_next_index(s, m, bank, open_row, last_cmd) ==
    LET hits == grp_row_hits(s, m, bank, open_row)
        same == grp_same_type(s, m, bank, open_row, s.last_command)
    IN IF Len(s.buffers[bank]) = 0 THEN 0
       ELSE IF open_row # NoRow /\ hits # {}
            THEN IF same # {} THEN FirstIndex(same) ELSE FirstIndex(hits)
       ELSE 1

grp_get_next_counters(s, m, bank, open_row, last_cmd) ==
    LET hits == grp_row_hits(s, m, bank, open_row)
        same == grp_same_type(s, m, bank, open_row, s.last_command)
    IN IF Len(s.buffers[bank]) = 0 THEN s
       ELSE IF open_row # NoRow /\ hits # {}
            THEN IF same # {}
                 THEN [s EXCEPT !.row_hits = @ + 1, !.grouping_decisions = @ + 1,
                                !.requests_selected = @ + 1]
                 ELSE [s EXCEPT !.row_hits = @ + 1, !.requests_selected = @ + 1]
       ELSE [s EXCEPT !.requests_selected = @ + 1]

\* IScheduler::get_next and remove, by the class behind the interface
GetNextIndex(s, m, bank, open_row, last_cmd) ==
    CASE config.policy = "FIFO" -> fifo_get_next_index(s, bank)
      [] config.policy = "FR_FCFS" -> get_next_index(s, m, bank, open_row)
      [] OTHER -> grp_get_next_index(s, m, bank, open_row, last_cmd)

GetNextCounters(s, m, bank, open_row, last_cmd) ==
    CASE config.policy = "FIFO" -> fifo_get_next_counters(s, bank)
      [] config.policy = "FR_FCFS" -> get_next_counters(s, m, bank, open_row)
      [] OTHER -> grp_get_next_counters(s, m, bank, open_row, last_cmd)

Remove(s, m, request) ==
    IF config.policy = "FR_FCFS_GRP" THEN grp_remove(s, m, request)
    ELSE remove(s, m, request)

NoCall ==
    [op |-> "none", bank |-> 0, open_row |-> NoRow, last_cmd |-> "READ",
     result |-> 0, returned |-> FALSE]

OpenRows == {NoRow} \cup { {r} : r \in Rows }

\* the caller fills a request (id, address, type, decoded bank and row) and
\* stores it
SchedStore ==
    /\ hist.n_stored < MaxStored
    /\ \E bank \in 0 .. (config.num_banks - 1), row \in Rows, col \in Columns,
          type \in Types :
          LET slot == hist.n_stored + 1
              request == decode_address(
                             [NewRequest(MakeAddress(bank, row) + col, type, 0)
                                 EXCEPT !.id = slot],
                             OrgTwoBanks)
          IN /\ mem' = [mem EXCEPT ![slot] = request]
             /\ sched' = store(sched, request, slot, slot)
             /\ hist' = [hist EXCEPT !.n_stored = slot, !.ret = NoCall]
    /\ UNCHANGED <<config, current_cycle, next_id, banks, bus, pending, stats,
                   draining>>

SchedGetNext ==
    /\ hist.n_gets < MaxGets
    /\ \E bank \in 0 .. (config.num_banks - 1), open_row \in OpenRows,
          last_cmd \in Types :
          LET idx == GetNextIndex(sched, mem, bank, open_row, last_cmd)
          IN /\ sched' = GetNextCounters(sched, mem, bank, open_row, last_cmd)
             /\ hist' = [hist EXCEPT
                            !.n_gets = @ + 1,
                            !.ret = [op |-> "get_next", bank |-> bank,
                                     open_row |-> open_row, last_cmd |-> last_cmd,
                                     result |-> IF idx = 0 THEN 0
                                                ELSE sched.buffers[bank][idx].ptr,
                                     returned |-> FALSE]]
    /\ UNCHANGED <<config, current_cycle, next_id, banks, mem, bus, pending, stats,
                   draining>>

\* remove of a queued request, which the caller then lets go
SchedRemove ==
    /\ \E slot \in RefSlots(sched) :
          /\ sched' = Remove(sched, mem, mem[slot])
          /\ mem' = [mem EXCEPT ![slot] = FreeSlot]
          /\ hist' = [hist EXCEPT
                         !.ret = [NoCall EXCEPT
                                     !.op = "remove",
                                     !.bank = mem[slot].bank,
                                     !.result = slot,
                                     !.returned = hist.ret.op = "get_next"
                                                     /\ hist.ret.result = slot]]
    /\ UNCHANGED <<config, current_cycle, next_id, banks, bus, pending, stats,
                   draining>>

InitSchedWith(policy) ==
    /\ config = SchedulerConfig(policy)
    /\ current_cycle = 0
    /\ next_id = 1
    /\ banks = << >>
    /\ sched = NewScheduler(config)
    /\ mem = [a \in 1 .. MaxStored |-> FreeSlot]
    /\ bus = [last_command |-> "READ", last_read_cycle |-> 0, last_write_cycle |-> 0]
    /\ pending = << >>
    /\ stats = Statistics
    /\ draining = FALSE
    /\ hist = [n_stored |-> 0, n_gets |-> 0, ret |-> NoCall]

InitFifo == InitSchedWith("FIFO")

InitFrFcfs == InitSchedWith("FR_FCFS")

InitFrFcfsGrp == InitSchedWith("FR_FCFS_GRP")

NextSched == SchedStore \/ SchedGetNext \/ SchedRemove

SpecFifo == InitFifo /\ [][NextSched]_vars

SpecFrFcfs == InitFrFcfs /\ [][NextSched]_vars

SpecFrFcfsGrp == InitFrFcfsGrp /\ [][NextSched]_vars

\* the ids of the queued requests
QueuedIds(s, m) == { m[a].id : a \in RefSlots(s) }

\* remove of a request that is not queued: one removed before, or one never
\* stored
SchedRemoveAbsent ==
    /\ \E id \in (1 .. (MaxStored + 1)) \ QueuedIds(sched, mem),
          bank \in 0 .. (config.num_banks - 1), type \in Types :
          LET request == [NewRequest(0, type, 0) EXCEPT !.id = id, !.bank = bank]
          IN /\ sched' = Remove(sched, mem, request)
             /\ hist' = [hist EXCEPT
                            !.ret = [NoCall EXCEPT !.op = "remove_absent",
                                                   !.bank = bank,
                                                   !.result = id]]
    /\ UNCHANGED <<config, current_cycle, next_id, banks, mem, bus, pending, stats,
                   draining>>

InitSchedulers == InitFifo \/ InitFrFcfs \/ InitFrFcfsGrp

NextSchedulers == SchedStore \/ SchedGetNext \/ SchedRemove \/ SchedRemoveAbsent

SpecSchedulers == InitSchedulers /\ [][NextSchedulers]_vars

(***************************************************************************)
(* Runs across a reset: the cycle-accurate controller, every argument on   *)
(* an address no queue entry refers to, up to EpochTicks ticks before and  *)
(* after each reset.                                                       *)
(***************************************************************************)
EpochTicks == 6

TickEpoch ==
    /\ current_cycle < EpochTicks
    /\ TickCA

ResetEpoch ==
    /\ hist.n_resets < MaxResets
    /\ ResetCA

NextEpoch == SubmitOwned \/ TickEpoch \/ ResetEpoch

SpecEpoch == InitOwned /\ [][NextEpoch]_vars

(***************************************************************************)
(* A Statistics object updated only through record_request, with any type, *)
(* latency and page flags.  hist.ret describes the most recent call and    *)
(* keeps the object as it was before the call.                             *)
(***************************************************************************)
MaxRecords == 3

RecordLatencies == {0, 1, 100, 150}

InitStats ==
    /\ config = ControllerConfig("BEHAVIORAL", MaxQueue, OrgTwoBanks, SmallTiming)
    /\ current_cycle = 0
    /\ next_id = 1
    /\ banks = << >>
    /\ sched = << >>
    /\ mem = << >>
    /\ bus = [last_command |-> "READ", last_read_cycle |-> 0, last_write_cycle |-> 0]
    /\ pending = << >>
    /\ stats = Statistics
    /\ draining = FALSE
    /\ hist = [n_records |-> 0,
               ret |-> [op |-> "none", type |-> "READ", latency |-> 0,
                        page_hit |-> FALSE, page_conflict |-> FALSE,
                        before |-> Statistics]]

RecordRequest ==
    /\ hist.n_records < MaxRecords
    /\ \E type \in Types, latency \in RecordLatencies,
          page_hit \in BOOLEAN, page_conflict \in BOOLEAN :
          /\ stats' = record_request(stats, type, latency, page_hit, page_conflict)
          /\ hist' = [n_records |-> hist.n_records + 1,
                      ret |-> [op |-> "record_request", type |-> type,
                               latency |-> latency, page_hit |-> page_hit,
                               page_conflict |-> page_conflict,
                               before |-> stats]]
    /\ UNCHANGED <<config, current_cycle, next_id, banks, sched, mem, bus,
                   pending, draining>>

NextStats == RecordRequest

SpecStats == InitStats /\ [][NextStats]_vars

(***************************************************************************)
(* The derived values of an OrganizationParams whose four 8-bit counts are *)
(* drawn from ByteValues.  hist.ret holds what banks_per_rank() and        *)
(* total_banks() returned.                                                 *)
(***************************************************************************)
ByteValues == {1, 2, 4, 16, 255}

Organizations ==
    [num_channels : ByteValues, ranks_per_channel : ByteValues,
     bank_groups_per_rank : ByteValues, banks_per_bank_group : ByteValues,
     rows_per_bank : {65536}]

InitOrg ==
    /\ config \in {ControllerConfig("CYCLE_ACCURATE", MaxQueue, org, SmallTiming) :
                      org \in Organizations}
    /\ current_cycle = 0
    /\ next_id = 1
    /\ banks = << >>
    /\ sched = << >>
    /\ mem = << >>
    /\ bus = [last_command |-> "READ", last_read_cycle |-> 0, last_write_cycle |-> 0]
    /\ pending = << >>
    /\ stats = Statistics
    /\ draining = FALSE
    /\ hist = [ret |-> [op |-> "none", banks_per_rank |-> 0, total_banks |-> 0]]

DerivedValues ==
    /\ hist.ret.op = "none"
    /\ hist' = [ret |-> [op |-> "derived",
                         banks_per_rank |-> banks_per_rank(config.organization),
                         total_banks |-> total_banks(config.organization)]]
    /\ UNCHANGED <<config, current_cycle, next_id, banks, sched, mem, bus,
                   pending, stats, draining>>

NextOrg == DerivedValues

SpecOrg == InitOrg /\ [][NextOrg]_vars

(***************************************************************************)
(* Properties                                                              *)
(***************************************************************************)
\* the commands of the latest tick
Cmds == { hist.cmds[i] : i \in 1 .. Len(hist.cmds) }

\* banks are numbered bank group by bank group
SameBankGroup(org, a, b) ==
    (a \div org.banks_per_bank_group) = (b \div org.banks_per_bank_group)

\* the queue entries of the scheduler and of pending_, by the call that
\* stored them
PendingUids ==
    IF config.fidelity = "CYCLE_ACCURATE"
    THEN UNION { { sched.buffers[b][i].uid : i \in 1 .. Len(sched.buffers[b]) } :
                 b \in DOMAIN sched.buffers }
    ELSE { pending[i].request.cb : i \in 1 .. Len(pending) }

\* C1: the cycle-accurate controller issues at most one DRAM command (ACT,
\* RD, WR, PRE or REF) per tick.
C1_OneCommandPerTick == Len(hist.cmds) <= 1

\* C2: two consecutive ACT commands to the same bank are at least tRC cycles
\* apart, also when a PRE lies between them.
C2_ActToActSameBank ==
    \A c \in Cmds :
        (c.cmd = "ACT" /\ c.prev_act # << >>)
            => c.cycle - c.prev_act[1] >= config.timing.tRC

\* C3: at most four ACT commands go to a rank in any window of tFAW cycles:
\* an ACT that follows four others is at least tFAW cycles after the first
\* of the four.
C3_FourActivateWindow ==
    \A c \in Cmds :
        (c.cmd = "ACT" /\ Len(c.prev_acts) = 4)
            => c.cycle - c.prev_acts[1] >= config.timing.tFAW

\* C4: every RD or WR command is issued at least tRCD cycles after the most
\* recent ACT to its bank.
C4_ActToCas ==
    \A c \in Cmds :
        c.cmd \in {"RD", "WR"}
            => /\ c.prev_act # << >>
               /\ c.cycle - c.prev_act[1] >= config.timing.tRCD

\* C4, witness: a RD or WR was issued exactly tRCD cycles after the ACT
C4_CasIssued ==
    \E c \in Cmds :
        /\ c.cmd \in {"RD", "WR"}
        /\ c.prev_act # << >>
        /\ c.cycle - c.prev_act[1] = config.timing.tRCD

\* C5: a RD command follows the latest WR command by at least tWTR_L cycles
\* when both address the same bank group and by at least tWTR_S cycles
\* otherwise, whether or not they address the same bank.
C5_WriteToRead ==
    \A c \in Cmds :
        (c.cmd = "RD" /\ c.prev_wr # << >>)
            => c.cycle - c.prev_wr[1].cycle >=
                   IF SameBankGroup(config.organization, c.prev_wr[1].bank, c.bank)
                   THEN config.timing.tWTR_L
                   ELSE config.timing.tWTR_S

\* C6: no bank goes more than tREFI * (1 + max_postpone) cycles without
\* entering REFRESHING.
C6_RefreshDeadline ==
    \A b \in DOMAIN banks :
        current_cycle - hist.last_ref[b] <= RefreshDeadline(config.timing)

\* C7: without a reset, every accepted request gets its callback: once
\* nothing is pending, the callback of every accepted request has been
\* invoked.
C7_AcceptedIsCalled ==
    (hist.n_resets = 0 /\ ~has_pending)
        => \A u \in hist.accepted : hist.called[u] >= 1

\* C8: in the cycle-accurate and transactional controllers the callback of a
\* request is invoked at most once and the request is not pending afterwards.
C8_CalledOnce ==
    config.fidelity # "BEHAVIORAL"
        => \A u \in Uids :
              /\ hist.called[u] <= 1
              /\ hist.called[u] >= 1 => u \notin PendingUids

\* a bank queue that no completion can shorten: remove() looks for a served
\* request in the queue of the bank the request names, and no request the
\* scheduler can read names this bank
Unremovable(b) ==
    /\ Len(sched.buffers[b]) > 0
    /\ \A a \in RefSlots(sched) : mem[a].bank # b

\* C9: drain() terminates and leaves nothing pending: a running drain is
\* never in a state from which has_pending() stays true for ever, and when
\* it has returned pending_count() is 0 and has_pending() is false.
C9_DrainTerminates ==
    /\ draining => ~(config.fidelity = "CYCLE_ACCURATE"
                       /\ \E b \in DOMAIN sched.buffers : Unremovable(b))
    /\ hist.ret.op = "drained" => (pending_count = 0 /\ ~has_pending)

\* C10: in the cycle-accurate and transactional controllers, after any
\* sequence of submit, tick and reset calls pending_count() is at most
\* queue_depth, and submit returns nullopt exactly when pending_count()
\* equals queue_depth at the call.
C10_QueueBound ==
    config.fidelity # "BEHAVIORAL"
        => /\ pending_count <= config.queue_depth
           /\ hist.ret.op = "submit"
                 => (~hist.ret.accepted
                        <=> hist.ret.pending_before = config.queue_depth)

\* C10, witness: the cycle-accurate controller rejects a submit after a reset
C10_RejectedAfterReset ==
    /\ config.fidelity = "CYCLE_ACCURATE"
    /\ hist.n_resets > 0
    /\ hist.ret.op = "submit"
    /\ ~hist.ret.accepted

\* C11: in the cycle-accurate controller, without a reset, the number of
\* accepted requests equals stats.reads + stats.writes + pending_count().
C11_AcceptedAccounted ==
    (config.fidelity = "CYCLE_ACCURATE" /\ hist.n_resets = 0)
        => Cardinality(hist.accepted) = stats.reads + stats.writes + pending_count

\* C12: in the cycle-accurate controller, right after reset() the cycle is 0,
\* every bank is IDLE, the statistics are zero and pending_count() is 0, and
\* no tick after a reset invokes the callback of a request submitted before
\* that reset.
C12_ResetClearsAll ==
    config.fidelity = "CYCLE_ACCURATE"
        => /\ hist.ret.op = "reset"
                 => /\ current_cycle = 0
                    /\ \A b \in DOMAIN banks : banks[b].state = "IDLE"
                    /\ stats = Statistics
                    /\ pending_count = 0
           /\ hist.n_resets > 0
                 => \A i \in 1 .. Len(hist.fired) :
                        hist.fired[i].cb > hist.reset_mark

\* C13: in the cycle-accurate controller the id returned by an accepted submit
\* is greater than the id returned by the accepted submit before it, resets
\* included.
C13_IdsIncrease ==
    (/\ config.fidelity = "CYCLE_ACCURATE"
     /\ hist.ret.op = "submit"
     /\ hist.ret.accepted)
        => hist.ret.id > hist.ret.prev_id

\* C14: in the cycle-accurate controller every RD or WR of a tick, which is
\* where page_hits is incremented, goes to a bank whose open row is the row
\* of the request served; the bank was ACTIVE and is now in its burst.
C14_CasToOpenRow ==
    config.fidelity = "CYCLE_ACCURATE"
        => \A c \in Cmds :
              c.cmd \in {"RD", "WR"}
                 => /\ banks[c.bank].open_row = c.row
                    /\ banks[c.bank].state = (IF c.cmd = "RD" THEN "READING"
                                              ELSE "WRITING")
                    /\ banks[c.bank].state_until = c.cycle + config.timing.tBurst
                    /\ stats.page_hits > 0

\* C14, witness: a WR to row 1 was issued and counted as a page hit
C14_WriteHit ==
    /\ config.fidelity = "CYCLE_ACCURATE"
    /\ \E c \in Cmds : c.cmd = "WR" /\ c.row = 1 /\ banks[c.bank].open_row = 1
    /\ stats.page_hits > 0

\* C15: in the cycle-accurate controller, once every accepted request has
\* completed (no reset), the first request, which found its bank IDLE, has
\* been counted as page EMPTY, and no completed request has been counted as
\* both EMPTY and HIT or as HIT twice: page_empty >= 1 and
\* page_hits + page_empty <= reads + writes.
C15_EmptyAndHitOnce ==
    (/\ config.fidelity = "CYCLE_ACCURATE"
     /\ hist.n_resets = 0
     /\ hist.accepted # {}
     /\ ~has_pending)
        => /\ stats.page_empty >= 1
           /\ stats.page_hits + stats.page_empty <= stats.reads + stats.writes

\* C16: in the cycle-accurate controller, whenever no request is pending,
\* reads + writes = page_hits + page_empty + page_conflicts.
C16_ClassifiedOnce ==
    (config.fidelity = "CYCLE_ACCURATE" /\ ~has_pending)
        => stats.reads + stats.writes
              = stats.page_hits + stats.page_empty + stats.page_conflicts

\* the completions so far, by position, and whether the one at i is the
\* first of its bank / the one at i is followed on its bank by the one at j
Done == hist.done

FirstOnBank(i) == \A k \in 1 .. (i - 1) : Done[k].bank # Done[i].bank

NextOnBank(i, j) ==
    /\ i < j
    /\ Done[i].bank = Done[j].bank
    /\ \A k \in (i + 1) .. (j - 1) : Done[k].bank # Done[i].bank

\* C17: with the LPDDR5-6400 timing and the requests submitted at cycle 0, a
\* read that found its bank idle reports a latency of at least tRCD + tCL,
\* and a read of the same bank and row completed after it reports at least
\* that latency plus tCCD_S.
C17_ReadLatency ==
    config.fidelity = "CYCLE_ACCURATE"
        => \A i \in 1 .. Len(Done) :
              (Done[i].type = "READ" /\ FirstOnBank(i))
                 => /\ Done[i].latency >= config.timing.tRCD + config.timing.tCL
                    /\ \A j \in 1 .. Len(Done) :
                          (/\ NextOnBank(i, j)
                           /\ Done[j].type = "READ"
                           /\ Done[j].row = Done[i].row)
                             => Done[j].latency
                                   >= Done[i].latency + config.timing.tCCD_S

\* the completions that followed, on their bank, one of another row
ConflictsDone ==
    { j \in 1 .. Len(Done) :
         \E i \in 1 .. Len(Done) : NextOnBank(i, j) /\ Done[i].row # Done[j].row }

\* C18: when two reads of different rows of one bank are submitted to the
\* idle bank, the burst of the second finishes at least tRP + tRCD + tCL
\* cycles after the burst of the first, and once both are complete
\* page_conflicts has been incremented once for the second.
C18_ConflictGap ==
    config.fidelity = "CYCLE_ACCURATE"
        => /\ \A i, j \in 1 .. Len(Done) :
                 (/\ NextOnBank(i, j)
                  /\ Done[i].type = "READ" /\ Done[j].type = "READ"
                  /\ Done[i].row # Done[j].row)
                    => (Done[j].issued + config.timing.tBurst)
                          - (Done[i].issued + config.timing.tBurst)
                          >= config.timing.tRP + config.timing.tRCD
                                + config.timing.tCL
           /\ pending_count = 0
                 => stats.page_conflicts = Cardinality(ConflictsDone)

\* C19: in the cycle-accurate controller a callback is invoked tBurst cycles
\* after the RD or WR command of its request, and the request still counts
\* in pending_count() after the tick that issued the command.
C19_CompletionAfterBurst ==
    config.fidelity = "CYCLE_ACCURATE"
        => /\ \A i \in 1 .. Len(hist.fired) :
                 hist.fired[i].issued # << >>
                    => hist.fired[i].cycle
                          = hist.fired[i].issued[1] + config.timing.tBurst
           /\ (hist.ret.op = "tick" /\ \E c \in Cmds : c.cmd \in {"RD", "WR"})
                 => pending_count >= 1

\* C20: in the cycle-accurate controller the latency passed to a callback is
\* the cycle of the RD or WR command plus tBurst, minus the value cycle()
\* had when the request of that callback was submitted.
C20_LatencyFromSubmit ==
    config.fidelity = "CYCLE_ACCURATE"
        => \A i \in 1 .. Len(Done) :
              Done[i].latency
                 = Done[i].issued + config.timing.tBurst - Done[i].at

\* C21: without a reset, every callback invoked by a tick of the
\* transactional or of the cycle-accurate controller receives a latency of
\* at least one cycle.
C21_LatencyAtLeastOne ==
    (config.fidelity # "BEHAVIORAL" /\ hist.n_resets = 0 /\ hist.ret.op = "tick")
        => \A i \in 1 .. Len(hist.fired) : hist.fired[i].latency >= 1

\* C21, witness: the cycle-accurate controller served a request in the tick
\* after its submit, the shortest latency it reports
C21_ShortestLatency ==
    /\ config.fidelity = "CYCLE_ACCURATE"
    /\ hist.n_resets = 0
    /\ hist.ret.op = "tick"
    /\ \E i \in 1 .. Len(hist.fired) :
          hist.fired[i].latency = 1 + config.timing.tBurst

\* C22: in the cycle-accurate controller the callbacks invoked within one
\* tick are invoked in increasing order of request id.
C22_CallbacksByIncreasingId ==
    config.fidelity = "CYCLE_ACCURATE"
        => \A i, j \in 1 .. Len(hist.fired) :
              i < j => hist.fired[i].id < hist.fired[j].id

\* C23: in the cycle-accurate controller a request whose address decodes to
\* a row index outside rows_per_bank is not accepted: no queue entry of the
\* scheduler refers to a request of such a row.
C23_RowInRange ==
    config.fidelity = "CYCLE_ACCURATE"
        => \A b \in DOMAIN sched.buffers :
              \A i \in 1 .. Len(sched.buffers[b]) :
                 mem[sched.buffers[b][i].ptr].row < config.organization.rows_per_bank

\* C24: no controller that accepts requests is constructed from a
\* configuration with banks_per_rank() = 0 or with tRAS < tRCD.
C24_InvalidConfigRefused ==
    InvalidConfig(config) => hist.accepted = {}

\* C25: on the behavioral controller pending_count() is always 0, and every
\* submit is accepted, leaves cycle() unchanged, invokes the callback of the
\* request once and no other, and either counts a read and adds
\* fixed_read_latency, the latency passed to the callback, to
\* total_read_latency, or counts a write and does the same with
\* fixed_write_latency and total_write_latency.
C25_BehavioralSubmit ==
    /\ [](config.fidelity = "BEHAVIORAL" => pending_count = 0 /\ ~has_pending)
    /\ [][(config.fidelity = "BEHAVIORAL" /\ hist'.n_submits = hist.n_submits + 1)
            => /\ hist'.ret.op = "submit"
               /\ hist'.ret.accepted
               /\ current_cycle' = current_cycle
               /\ Len(hist'.fired) = 1
               /\ hist'.fired[1].cb = hist'.n_submits
               /\ hist'.called = [hist.called EXCEPT ![hist'.n_submits] = @ + 1]
               /\ \/ /\ hist'.fired[1].latency = config.timing.fixed_read_latency
                     /\ stats' = [stats EXCEPT
                                     !.reads = @ + 1,
                                     !.total_read_latency =
                                         @ + config.timing.fixed_read_latency]
                  \/ /\ hist'.fired[1].latency = config.timing.fixed_write_latency
                     /\ stats' = [stats EXCEPT
                                     !.writes = @ + 1,
                                     !.total_write_latency =
                                         @ + config.timing.fixed_write_latency]]_vars

\* C25, witness: the behavioral controller has completed a write in submit
C25_WriteCompletedInSubmit ==
    /\ config.fidelity = "BEHAVIORAL"
    /\ hist.ret.op = "submit"
    /\ Len(hist.fired) = 1
    /\ hist.fired[1].latency = config.timing.fixed_write_latency
    /\ stats.writes >= 1

\* C26: on the transactional controller, after a tick no pending request has
\* complete_cycle <= cycle(), and the callbacks of the tick were invoked in
\* the order of submission.
C26_ReleasesAllDue ==
    (config.fidelity = "TRANSACTIONAL" /\ hist.ret.op = "tick")
        => /\ \A i \in 1 .. Len(pending) :
                 pending[i].complete_cycle > current_cycle
           /\ \A i, j \in 1 .. Len(hist.fired) :
                 i < j => hist.fired[i].cb < hist.fired[j].cb

\* the queued requests of a bank, by the order of their store calls, and the
\* one stored first among a set of them
QueuedOf(bank) == { slot \in RefSlots(sched) : mem[slot].bank = bank }

Earliest(S) == CHOOSE a \in S : \A b \in S : a <= b

\* C27: FifoScheduler::get_next returns null iff no request of the bank is
\* queued and otherwise the request of the bank stored first, for every
\* open_row and last_cmd; and a remove of the request get_next returned
\* leaves only requests of that bank that were stored after it.
C27_FifoOrder ==
    config.policy = "FIFO"
        => /\ hist.ret.op = "get_next"
                 => hist.ret.result = (IF QueuedOf(hist.ret.bank) = {} THEN 0
                                       ELSE Earliest(QueuedOf(hist.ret.bank)))
           /\ (hist.ret.op = "remove" /\ hist.ret.returned)
                 => \A slot \in QueuedOf(hist.ret.bank) : slot > hist.ret.result

\* C27, witness: a request was removed after get_next returned it, with a
\* later request of its bank still queued
C27_RemovedInOrder ==
    /\ config.policy = "FIFO"
    /\ hist.ret.op = "remove"
    /\ hist.ret.returned
    /\ QueuedOf(hist.ret.bank) # {}

\* the queued requests of the bank of the latest get_next call that address
\* the open row it was given
RowHitsOfCall ==
    { slot \in QueuedOf(hist.ret.bank) : mem[slot].row \in hist.ret.open_row }

\* C28: FrFcfsScheduler::get_next returns null iff no request of the bank is
\* queued; the earliest stored request of the open row if open_row is set
\* and such a request is queued; otherwise the oldest request of the bank.
C28_FrFcfsSelection ==
    (config.policy = "FR_FCFS" /\ hist.ret.op = "get_next")
        => hist.ret.result =
              (IF QueuedOf(hist.ret.bank) = {} THEN 0
               ELSE IF RowHitsOfCall # {} THEN Earliest(RowHitsOfCall)
               ELSE Earliest(QueuedOf(hist.ret.bank)))

\* C28, witness: get_next returned a row hit that is not the oldest request
\* of the bank
C28_RowHitBeforeOldest ==
    /\ config.policy = "FR_FCFS"
    /\ hist.ret.op = "get_next"
    /\ hist.ret.result \in RowHitsOfCall
    /\ hist.ret.result # Earliest(QueuedOf(hist.ret.bank))

\* the row hits of the latest get_next call that have the type given as
\* last_cmd and no earlier queued request of their address in the bank
PreferredOfCall ==
    { slot \in RowHitsOfCall :
         /\ mem[slot].type = hist.ret.last_cmd
         /\ \A other \in QueuedOf(hist.ret.bank) :
               other < slot => mem[other].address # mem[slot].address }

\* C29: FrFcfsGrpScheduler::get_next called with an open row prefers, among
\* the row hits, the type given as last_cmd: it returns the earliest row hit
\* of that type that no earlier request of the same address blocks, when
\* there is one.
C29_PrefersLastCmd ==
    (/\ config.policy = "FR_FCFS_GRP"
     /\ hist.ret.op = "get_next"
     /\ PreferredOfCall # {})
        => hist.ret.result = Earliest(PreferredOfCall)

\* C30: FrFcfsGrpScheduler::get_next never returns a request while a request
\* of the same address stored before it is queued for the bank.
C30_NoBlockedRequest ==
    (/\ config.policy = "FR_FCFS_GRP"
     /\ hist.ret.op = "get_next"
     /\ hist.ret.result # 0)
        => \A other \in QueuedOf(hist.ret.bank) :
              other < hist.ret.result
                 => mem[other].address # mem[hist.ret.result].address

\* C30, witness: get_next passed over a row hit of the type of the last
\* removed request because the request it returned has the same address
\* and was stored before it
C30_HazardPassedOver ==
    /\ config.policy = "FR_FCFS_GRP"
    /\ hist.ret.op = "get_next"
    /\ hist.ret.result # 0
    /\ mem[hist.ret.result].type # sched.last_command
    /\ \E other \in RowHitsOfCall :
          /\ other > hist.ret.result
          /\ mem[other].type = sched.last_command
          /\ mem[other].address = mem[hist.ret.result].address

\* the counters of Statistics that only grow
GrowingCounters ==
    {"reads", "writes", "page_hits", "page_empty", "page_conflicts",
     "total_read_latency", "total_write_latency", "max_latency"}

\* C31: no submit and no tick decreases reads, writes, page_hits,
\* page_empty, page_conflicts, total_read_latency, total_write_latency or
\* max_latency (64-bit unsigned values).
C31_CountersGrow ==
    [][hist'.ret.op \in {"submit", "tick"}
          => \A c \in GrowingCounters : ~U64Less(stats'[c], stats[c])]_vars

\* the counter of Statistics a call with these page flags is to increment
PageCounterOf(page_hit, page_conflict) ==
    IF page_hit THEN "page_hits"
    ELSE IF page_conflict THEN "page_conflicts"
    ELSE "page_empty"

\* C32: each record_request(type, latency, page_hit, page_conflict)
\* increments exactly one of reads / writes, adds latency to the matching
\* total, and increments exactly one of page_hits (if page_hit),
\* page_conflicts (if not page_hit and page_conflict) or page_empty
\* (otherwise); so reads + writes = page_hits + page_empty + page_conflicts
\* after any sequence of calls.
C32_RecordRequest ==
    /\ hist.ret.op = "record_request" =>
          LET r == hist.ret
              b == r.before
              count == IF r.type = "READ" THEN "reads" ELSE "writes"
              total == IF r.type = "READ" THEN "total_read_latency"
                       ELSE "total_write_latency"
              page  == PageCounterOf(r.page_hit, r.page_conflict)
          IN /\ \A c \in {"reads", "writes"} :
                   stats[c] = b[c] + (IF c = count THEN 1 ELSE 0)
             /\ \A c \in {"total_read_latency", "total_write_latency"} :
                   stats[c] = b[c] + (IF c = total THEN r.latency ELSE 0)
             /\ \A c \in {"page_hits", "page_conflicts", "page_empty"} :
                   stats[c] = b[c] + (IF c = page THEN 1 ELSE 0)
    /\ stats.reads + stats.writes
          = stats.page_hits + stats.page_empty + stats.page_conflicts

\* a write recorded as a hit although the conflict flag is set, after a read
C32_HitWithConflictFlag ==
    /\ hist.ret.op = "record_request"
    /\ hist.ret.type = "WRITE"
    /\ hist.ret.page_hit /\ hist.ret.page_conflict
    /\ hist.ret.before.reads > 0
    /\ stats.page_hits = hist.ret.before.page_hits + 1

\* C33: for every OrganizationParams, banks_per_rank() is the integer
\* product bank_groups_per_rank * banks_per_bank_group and total_banks() is
\* the integer product num_channels * ranks_per_channel * banks_per_rank(),
\* without wrap-around modulo 256.
C33_DerivedProducts ==
    hist.ret.op = "derived" =>
        LET org == config.organization
        IN /\ hist.ret.banks_per_rank
                = org.bank_groups_per_rank * org.banks_per_bank_group
           /\ hist.ret.total_banks
                = org.num_channels * org.ranks_per_channel
                    * hist.ret.banks_per_rank

\* C34: a PRE is issued to a bank no earlier than tRTP cycles after the
\* latest RD issued to that bank and no earlier than tWL + tBurst + tWR
\* cycles after the latest WR issued to that bank.
C34_CasToPrecharge ==
    \A c \in Cmds :
        c.cmd = "PRE" =>
            LET rd == c.prev_cas[c.bank].RD
                wr == c.prev_cas[c.bank].WR
                t  == config.timing
            IN /\ rd # << >> => c.cycle - rd[1] >= t.tRTP
               /\ wr # << >> => c.cycle - wr[1] >= t.tWL + t.tBurst + t.tWR

\* C35: two column commands of the same type (RD and RD, or WR and WR) are
\* at least tCCD_L cycles apart when issued to banks of the same bank group
\* and at least tCCD_S cycles apart when issued to banks of different bank
\* groups.
C35_ColumnToColumn ==
    \A c \in Cmds :
        c.cmd \in {"RD", "WR"} =>
            \A b \in DOMAIN c.prev_cas :
                c.prev_cas[b][c.cmd] # << >> =>
                    c.cycle - c.prev_cas[b][c.cmd][1] >=
                        IF SameBankGroup(config.organization, b, c.bank)
                        THEN config.timing.tCCD_L
                        ELSE config.timing.tCCD_S

\* the earliest-issue cycle a bank keeps for a command
EarliestIssue(bank, cmd) ==
    CASE cmd = "ACT" -> bank.next_act
      [] cmd = "RD"  -> bank.next_rd
      [] cmd = "WR"  -> bank.next_wr
      [] cmd = "PRE" -> bank.next_pre

\* C36: every command is issued only when the bank's earliest-issue cycle
\* for that command has been reached (ACT: next_act, RD: next_rd, WR:
\* next_wr, PRE: next_pre, as they stand when the tick begins); and at the
\* end of every tick no bank is ACTIVATING, READING, WRITING or PRECHARGING
\* with state_until <= current_cycle - 1.
C36_IssuedWhenReady ==
    /\ [][hist'.ret.op = "tick" =>
              \A i \in 1 .. Len(hist'.cmds) :
                  LET c == hist'.cmds[i]
                  IN /\ c.cycle = current_cycle'
                     /\ current_cycle' >= EarliestIssue(banks[c.bank], c.cmd)]_vars
    /\ [](hist.ret.op = "tick" =>
              \A b \in DOMAIN banks :
                  banks[b].state \in {"ACTIVATING", "READING", "WRITING",
                                      "PRECHARGING"}
                      => ~(banks[b].state_until <= current_cycle - 1))

\* a WR issued at the first cycle the bank's next_wr allowed after a RD, the
\* bank having left READING a cycle earlier
C36_WriteHeldBack ==
    /\ hist.ret.op = "tick"
    /\ \E c \in Cmds :
          /\ c.cmd = "WR"
          /\ c.prev_cas[c.bank].RD = <<c.cycle - config.timing.tRTW>>
          /\ config.timing.tRTW > config.timing.tBurst
          /\ banks[c.bank].state = "WRITING"

\* the changes of state of a bank
BankTransitions ==
    { <<"IDLE", "ACTIVATING">>, <<"ACTIVATING", "ACTIVE">>,
      <<"ACTIVE", "READING">>, <<"ACTIVE", "WRITING">>,
      <<"ACTIVE", "PRECHARGING">>, <<"READING", "ACTIVE">>,
      <<"WRITING", "ACTIVE">>, <<"PRECHARGING", "IDLE">> }

C38_PrechargeOnConflictOnly ==
    [][hist'.ret.op = "tick" =>
          \A i \in 1 .. Len(hist'.cmds) :
              LET c == hist'.cmds[i]
                  bank == update_bank_states(banks, current_cycle')[c.bank]
                  queue == sched.buffers[c.bank]
              IN c.cmd = "PRE" =>
                    /\ bank.state = "ACTIVE"
                    /\ Len(queue) > 0
                    /\ \A k \in 1 .. Len(queue) :
                          hist.queued_row[queue[k].uid] # <<bank.open_row>>]_vars

RECURSIVE SumOfLengths(_, _)
SumOfLengths(buffers, B) ==
    IF B = {} THEN 0
    ELSE LET b == CHOOSE x \in B : TRUE
         IN Len(buffers[b]) + SumOfLengths(buffers, B \ {b})

\* the queues and the two counts of a scheduler
QueuesAndCounts(s) ==
    <<s.buffers, s.buffer_depths, s.total_occupancy>>

\* C39: for the three schedulers, after any sequence of store, remove and
\* get_next calls, occupancy() is the sum of the lengths of the bank
\* queues, buffer_depth()[b] is the length of bank b's queue and
\* has_any_pending() holds iff occupancy() > 0; get_next changes neither the
\* contents nor the order of a queue; remove of a request that is not
\* queued leaves the queues and both counts unchanged.
C39_SchedulerCounts ==
    /\ [](/\ occupancy(sched) = SumOfLengths(sched.buffers, DOMAIN sched.buffers)
          /\ \A b \in DOMAIN sched.buffers :
                sched.buffer_depths[b] = Len(sched.buffers[b])
          /\ has_any_pending(sched) <=> occupancy(sched) > 0)
    /\ [][/\ hist'.ret.op = "get_next" => sched'.buffers = sched.buffers
          /\ hist'.ret.op = "remove_absent"
                => QueuesAndCounts(sched') = QueuesAndCounts(sched)]_vars

\* a request removed a second time from a bank that holds another request
C39_RemovedTwice ==
    /\ hist.ret.op = "remove_absent"
    /\ hist.ret.result <= hist.n_stored
    /\ Len(sched.buffers[hist.ret.bank]) = 1
    /\ occupancy(sched) = 1

\* C40: on the cycle-accurate and the transactional controller a submit
\* that is rejected because the queue is full changes nothing: no id is
\* consumed, pending_count(), cycle(), the banks and the statistics are
\* unchanged, and the callback of the rejected request is never invoked.
C40_RejectedSubmitInert ==
    /\ [][(config.fidelity # "BEHAVIORAL" /\ hist'.ret.op = "submit"
             /\ ~hist'.ret.accepted)
            => /\ next_id' = next_id
               /\ pending_count' = pending_count
               /\ current_cycle' = current_cycle
               /\ banks' = banks
               /\ stats' = stats]_vars
    /\ [](config.fidelity # "BEHAVIORAL"
            => \A u \in 1 .. hist.n_submits :
                   u \notin hist.accepted => hist.called[u] = 0)

====
